---- MODULE Spec2Model ----
(***************************************************************************)
(* Model of golang-lambda-deployer: the deploy command (main/runDeploy),   *)
(* the Deployer's listing, build, deploy and log-tail operations, and the  *)
(* configuration loader.  Strings are sequences of one-character strings,  *)
(* so that formatting, joining and truncation are computed, not assumed.   *)
(***************************************************************************)
EXTENDS Integers, Sequences, FiniteSets, TLC

(* ------------------------------------------------------------------ *)
(* Bounds of the model                                                 *)
(* ------------------------------------------------------------------ *)
MaxPages == 2
MaxPerPage == 1
MaxFrames == 3
MainFrames == 1
MaxLines == 2
MaxPollDelay == 2

(* ------------------------------------------------------------------ *)
(* String literals of the program                                      *)
(* ------------------------------------------------------------------ *)
Empty == << >>
Stag == <<"s", "t", "a", "g">>
E4fBuilds == <<"e", "4", "f", "-", "b", "u", "i", "l", "d", "s">>
AwsLambdaPrefix == <<"/", "a", "w", "s", "/", "l", "a", "m", "b", "d", "a", "/">>
Canary == <<"c", "a", "n", "a", "r", "y">>
CommaSpace == <<",", " ">>
Dash == <<"-">>
DirtySuffix == <<"-", "d", "i", "r", "t", "y">>
ZipSuffix == <<".", "z", "i", "p">>
WildcardSuffix == <<":", "*">>
Aes256 == "AES256"
ShortCommitLen == 7
WaitCeiling == 5

(* ------------------------------------------------------------------ *)
(* Values the environment can hand to the program                      *)
(* ------------------------------------------------------------------ *)
\* base name of the working directory
Cwd == <<"w">>
\* names that exist in the account besides the configured ones
OtherName == <<"z">>
\* values a deploy.conf can give
FileApp == <<"o">>
FileEnv == <<"p">>
FileBucket == <<"b">>
FileLogGroup == <<"g">>
ProdFlag == <<"p">>

\* a deploy.conf: whether it can be read, and the KEY=VALUE pairs it holds
ConfigFile(state, pairs) == [state |-> state, pairs |-> pairs]
NoFile == ConfigFile("missing", {})

ConfigFiles ==
    { NoFile,
      ConfigFile("ok", {<<"APP_NAME", FileApp>>}),
      ConfigFile("ok", {<<"APP_NAME", FileApp>>, <<"ENV", FileEnv>>}) }

\* the keys a deploy.conf of the wider domain can hold: the four tagged
\* fields, the two untagged fields under their own names (mapstructure
\* matches a key to a field name without regard to case), and a stranger
ConfigKeys ==
    {"ENV", "APP_NAME", "BUILDS_BUCKET", "LOG_GROUP_NAME",
     "LAMBDANAME", "SOURCECODEFILENAME", "OTHER"}

\* the value the files of the model give a key
FileValue(key) ==
    CASE key = "ENV" -> FileEnv
      [] key = "APP_NAME" -> FileApp
      [] key = "BUILDS_BUCKET" -> FileBucket
      [] key = "LOG_GROUP_NAME" -> FileLogGroup
      [] OTHER -> OtherName

\* every deploy.conf over these keys, also with an empty ENV= line, and the
\* files LoadConfig cannot load: missing, unreadable, or with a line
\* envparse rejects after lines it accepted
AllConfigFiles ==
    {ConfigFile("ok", {<<k, FileValue(k)>> : k \in K}) : K \in SUBSET ConfigKeys}
    \cup {ConfigFile("ok", {<<k, FileValue(k)>> : k \in K} \cup {<<"ENV", Empty>>}) :
              K \in SUBSET (ConfigKeys \ {"ENV"})}
    \cup {NoFile, ConfigFile("unreadable", {}),
          ConfigFile("malformed", {<<"ENV", FileEnv>>, <<"APP_NAME", FileApp>>})}

(* ------------------------------------------------------------------ *)
(* Pure helpers                                                        *)
(* ------------------------------------------------------------------ *)
Range(s) == {s[i] : i \in 1..Len(s)}

RECURSIVE Join(_, _)
\* strings.Join(elems, sep)
Join(elems, sep) ==
    IF Len(elems) = 0 THEN Empty
    ELSE IF Len(elems) = 1 THEN elems[1]
    ELSE elems[1] \o sep \o Join(Tail(elems), sep)

\* contains(slice, item): linear scan for an equal element
contains(slice, item) == \E i \in 1..Len(slice) : slice[i] = item

\* strings.TrimSuffix(s, suffix)
TrimSuffix(s, suffix) ==
    IF Len(s) >= Len(suffix)
       /\ SubSeq(s, Len(s) - Len(suffix) + 1, Len(s)) = suffix
    THEN SubSeq(s, 1, Len(s) - Len(suffix))
    ELSE s

\* t occurs in s as a contiguous substring
IsSubstring(t, s) ==
    \E i \in 0..(Len(s) - Len(t)) : SubSeq(s, i + 1, i + Len(t)) = t

(* ------------------------------------------------------------------ *)
(* Configuration: pkg.LoadConfig and pkg.LoadConfigOrDefaults          *)
(* ------------------------------------------------------------------ *)
ZeroConfig ==
    [Env |-> Empty, AppName |-> Empty, LambdaName |-> Empty,
     SourceCodeFilename |-> Empty, BuildsBucket |-> Empty,
     LogGroupName |-> Empty]

\* the struct field mapstructure fills from the parsed pairs
Field(file, key) ==
    IF \E p \in file.pairs : p[1] = key
    THEN (CHOOSE p \in file.pairs : p[1] = key)[2]
    ELSE Empty

\* a LoadConfig that fills in the default environment itself
LoadConfig_DefaultsEnv(file) ==
    IF file.state # "ok"
    THEN [config |-> ZeroConfig, ok |-> FALSE]
    ELSE [config |-> [ZeroConfig EXCEPT
                         !.Env = IF Field(file, "ENV") = Empty THEN Stag
                                 ELSE Field(file, "ENV"),
                         !.AppName = Field(file, "APP_NAME"),
                         !.LambdaName = Field(file, "LAMBDANAME"),
                         !.SourceCodeFilename = Field(file, "SOURCECODEFILENAME"),
                         !.BuildsBucket = Field(file, "BUILDS_BUCKET"),
                         !.LogGroupName = Field(file, "LOG_GROUP_NAME")],
          ok |-> TRUE]

\* LoadConfig: the decoded file and whether it returned a nil error
LoadConfig(file) ==
    IF file.state # "ok"
    THEN [config |-> ZeroConfig, ok |-> FALSE]
    ELSE [config |-> [ZeroConfig EXCEPT
                         !.Env = Field(file, "ENV"),
                         !.AppName = Field(file, "APP_NAME"),
                         !.LambdaName = Field(file, "LAMBDANAME"),
                         !.SourceCodeFilename = Field(file, "SOURCECODEFILENAME"),
                         !.BuildsBucket = Field(file, "BUILDS_BUCKET"),
                         !.LogGroupName = Field(file, "LOG_GROUP_NAME")],
          ok |-> TRUE]

\* a LoadConfigOrDefaults that derives the function name only when the file
\* gave none
LoadConfigOrDefaults_KeepsFileLambdaName(file, cwdBase) ==
    LET c0 == LoadConfig(file).config
        c1 == IF c0.Env = Empty THEN [c0 EXCEPT !.Env = Stag] ELSE c0
        c2 == IF c1.AppName = Empty THEN [c1 EXCEPT !.AppName = cwdBase] ELSE c1
        c3 == IF c2.BuildsBucket = Empty
              THEN [c2 EXCEPT !.BuildsBucket = E4fBuilds] ELSE c2
        c4 == IF c3.LambdaName = Empty
              THEN [c3 EXCEPT !.LambdaName = c3.AppName \o Dash \o c3.Env] ELSE c3
    IN  IF c4.LogGroupName = Empty
        THEN [c4 EXCEPT !.LogGroupName =
                  AwsLambdaPrefix \o c4.AppName \o Dash \o c4.Env]
        ELSE c4

\* LoadConfigOrDefaults; cwdBase is what getAppName returns
LoadConfigOrDefaults(file, cwdBase) ==
    LET c0 == LoadConfig(file).config
        c1 == IF c0.Env = Empty THEN [c0 EXCEPT !.Env = Stag] ELSE c0
        c2 == IF c1.AppName = Empty THEN [c1 EXCEPT !.AppName = cwdBase] ELSE c1
        c3 == IF c2.BuildsBucket = Empty
              THEN [c2 EXCEPT !.BuildsBucket = E4fBuilds] ELSE c2
        c4 == [c3 EXCEPT !.LambdaName = c3.AppName \o Dash \o c3.Env]
    IN  IF c4.LogGroupName = Empty
        THEN [c4 EXCEPT !.LogGroupName =
                  AwsLambdaPrefix \o c4.AppName \o Dash \o c4.Env]
        ELSE c4

(* ------------------------------------------------------------------ *)
(* Source control: getCurrentGitCommit                                 *)
(* ------------------------------------------------------------------ *)
CommitA == <<"a", "b", "c", "1", "2", "3", "4", "e", "f">>
CommitB == <<"d", "0", "0", "d", "f", "e", "e", "d", "9">>
Commits == {CommitA, CommitB}

\* what git status --porcelain prints: the user's own changes, and the build
\* outputs (bootstrap, the archive) when .gitignore does not cover them
StatusOutput(r) ==
    (IF r.userDirty THEN {"changes"} ELSE {})
    \cup (IF r.built /\ ~r.ignored THEN {"bootstrap"} ELSE {})

\* a getCurrentGitCommit that does not shorten the revision
getCurrentGitCommit_FullHash(r) ==
    IF StatusOutput(r) # {} THEN r.head \o DirtySuffix ELSE r.head

\* the string getCurrentGitCommit returns for a repository state
getCurrentGitCommit(r) ==
    LET commitStr == SubSeq(r.head, 1, ShortCommitLen)
    IN  IF StatusOutput(r) # {} THEN commitStr \o DirtySuffix ELSE commitStr

\* fmt.Sprintf("%s-%s.zip", LambdaName, commit)
SourceCodeFilename(lambdaName, commit) == lambdaName \o Dash \o commit \o ZipSuffix

(* ------------------------------------------------------------------ *)
(* What the platform can answer                                        *)
(* ------------------------------------------------------------------ *)
FunctionUniverse == {Cwd \o Dash \o Stag, FileApp \o Dash \o FileEnv, OtherName}
BucketUniverse == {E4fBuilds, OtherName}
LogGroupUniverse ==
    {AwsLambdaPrefix \o Cwd \o Dash \o Stag,
     AwsLambdaPrefix \o Cwd \o Dash \o Stag \o <<"2">>,
     AwsLambdaPrefix \o FileApp \o Dash \o FileEnv}
ArnPrefix == <<"a", "r", "n", ":">>
LogLines == {<<"l", "1">>, <<"l", "2">>}

\* sequences without repetition over S of length at most n
RECURSIVE DistinctSeqs(_, _)
DistinctSeqs(S, n) ==
    IF n = 0 THEN {Empty}
    ELSE LET shorter == DistinctSeqs(S, n - 1)
         IN  shorter \cup
             UNION {{Append(q, x) : x \in S \ Range(q)} :
                        q \in {r \in shorter : Len(r) = n - 1}}

\* one page of a listing: names not served on an earlier page
Pages(universe, already) == DistinctSeqs(universe \ Range(already), MaxPerPage)

RECURSIVE Flatten(_)
Flatten(pages) ==
    IF pages = Empty THEN Empty ELSE Head(pages) \o Flatten(Tail(pages))

(* ------------------------------------------------------------------ *)
(* State                                                               *)
(* ------------------------------------------------------------------ *)
VARIABLES
    osArgs,             \* the command line: the flags given, or an invalid one
    configFile,         \* deploy.conf in the working directory
    pc,                 \* position of the main goroutine
    exitCode,           \* -1 while the process runs, else its exit code
    env, tail,          \* the package-level flag variables of cmd/deploy
    Config,             \* de.Config
    functionNames, nextMarker,      \* locals of GetAvailableFunctions
    availableFunctions,             \* local of runDeploy
    availableBuckets,               \* local of runDeploy
    logGroupNames, nextToken,       \* locals of getAvailableLogGroups
    availableLogGroups,             \* local of TailLogs
    logGroupArn,                    \* what getARNofLogGroup returned
    currentGitCommit,   \* Build's local
    publishOutput,      \* Deploy's local: the version PublishVersion returned
    waited,             \* time the waiter has used of its ceiling
    repo,               \* the working tree: head, userDirty, ignored, built
    cloud,              \* the account: blobs, code, status, latest version, alias
    stdout,             \* what the process printed: [fmt, args]
    calls,              \* the external operations of this run, in order; the
                        \* pages of one listing and the polls of one wait are
                        \* one entry, their detail is in requested and polls
    requested,          \* markers sent by the listing in progress
    served,             \* pages the platform returned to the listing or lookup in progress
    confirmed,          \* resource kinds whose existence check has passed
    run,                \* which invocation of the tool this is
    previous,           \* upload and update requests of the earlier invocation
    chan,               \* the event channel: "none", "open", "closed"
    streamErr,          \* the transport's deferred error is non-nil
    closedByCaller,     \* stream.Close() has been called
    framesLeft,         \* frames the transport can still deliver
    cpc,                \* position of the consumer goroutine
    event,              \* the consumer's local: the frame it received
    lineNo,             \* the consumer's position in the frame's results
    rendered,           \* what the consumer logged: [line, afterClose]
    delivered           \* frames the consumer received, in order

mainVars == <<pc, exitCode, env, tail, Config>>
funcVars == <<functionNames, nextMarker, availableFunctions>>
groupVars == <<logGroupNames, nextToken, availableLogGroups, logGroupArn>>
pageVars == <<requested, served>>
listVars == <<funcVars, availableBuckets, groupVars, pageVars>>
deployVars == <<currentGitCommit, publishOutput, waited>>
worldVars == <<osArgs, configFile, repo, cloud>>
outVars == <<stdout, calls>>
histVars == <<confirmed, run, previous>>
streamVars == <<chan, streamErr, closedByCaller, framesLeft>>
consumerVars == <<cpc, event, lineNo, rendered, delivered>>
tailVars == <<streamVars, consumerVars>>
vars == <<mainVars, listVars, deployVars, worldVars, outVars, histVars, tailVars>>

Running == exitCode = -1

Call(op, ok, args) == [op |-> op, ok |-> ok, args |-> args]
NoArgs == [none |-> TRUE]
Printed(fmt, args) == [fmt |-> fmt, args |-> args]
NilEvent == [type |-> "nil", lines |-> Empty]

\* an exit that reports success whatever happened
Exit_AlwaysZero(code, msgs, c) ==
    /\ pc' = "exited"
    /\ exitCode' = 0
    /\ stdout' = stdout \o msgs
    /\ calls' = calls \o c

\* os.Exit(code), after printing msgs and having attempted the operations c
Exit(code, msgs, c) ==
    /\ pc' = "exited"
    /\ exitCode' = code
    /\ stdout' = stdout \o msgs
    /\ calls' = calls \o c

\* the operation went through: it is logged and the main goroutine moves on
Goto(next, c) ==
    /\ pc' = next
    /\ calls' = calls \o c
    /\ UNCHANGED <<exitCode, stdout>>

InitCloud ==
    [blobs |-> {}, code |-> Empty, status |-> "Successful", latest |-> 0, alias |-> 0]

InitProcess ==
    /\ pc = "main"
    /\ exitCode = -1
    /\ env = Empty
    /\ tail = FALSE
    /\ Config = ZeroConfig
    /\ functionNames = Empty
    /\ nextMarker = 0
    /\ availableFunctions = Empty
    /\ availableBuckets = Empty
    /\ logGroupNames = Empty
    /\ nextToken = 0
    /\ availableLogGroups = Empty
    /\ logGroupArn = Empty
    /\ requested = Empty
    /\ served = Empty
    /\ currentGitCommit = Empty
    /\ publishOutput = 0
    /\ waited = 0
    /\ stdout = Empty
    /\ calls = Empty
    /\ confirmed = {}
    /\ chan = "none"
    /\ streamErr = FALSE
    /\ closedByCaller = FALSE
    /\ cpc = "none"
    /\ event = NilEvent
    /\ lineNo = 0
    /\ rendered = Empty
    /\ delivered = Empty

\* the command lines of the model: -e/--env given or not, --tail given or not
CommandLines ==
    [env : {Empty, ProdFlag}, tail : BOOLEAN, valid : {TRUE}]
    \cup {[env |-> Empty, tail |-> FALSE, valid |-> FALSE]}

Repos == [head : {CommitA}, userDirty : BOOLEAN, ignored : BOOLEAN, built : {FALSE}]

\* the function has no published version yet, or "canary" points at version 6
Clouds == {[InitCloud EXCEPT !.latest = v, !.alias = v] : v \in {0, 6}}

Init ==
    /\ InitProcess
    /\ osArgs \in CommandLines
    /\ configFile \in ConfigFiles
    /\ framesLeft = MainFrames
    /\ repo \in Repos
    /\ cloud \in Clouds
    /\ run = 1
    /\ previous = Empty

(* ------------------------------------------------------------------ *)
(* cmd/deploy: main and runDeploy                                      *)
(* ------------------------------------------------------------------ *)
\* a main whose --tail flag defaults to true
Main_TailDefaultsTrue ==
    /\ pc = "main"
    /\ IF osArgs.valid
       THEN /\ env' = osArgs.env
            /\ tail' = TRUE
            /\ Goto("runDeploy", Empty)
       ELSE /\ Exit(1, <<Printed("%v", Empty)>>, <<Call("parse-flags", FALSE, NoArgs)>>)
            /\ UNCHANGED <<env, tail>>
    /\ UNCHANGED <<Config, listVars, deployVars, worldVars, histVars, tailVars>>

\* main: cobra parses the flags into env and tail, or Execute returns an error
Main ==
    /\ pc = "main"
    /\ IF osArgs.valid
       THEN /\ env' = osArgs.env
            /\ tail' = osArgs.tail
            /\ Goto("runDeploy", Empty)
       ELSE /\ Exit(1, <<Printed("%v", Empty)>>, <<Call("parse-flags", FALSE, NoArgs)>>)
            /\ UNCHANGED <<env, tail>>
    /\ UNCHANGED <<Config, listVars, deployVars, worldVars, histVars, tailVars>>

\* runDeploy: de.Config = pkg.LoadConfigOrDefaults(); de.InitAWSClient()
LoadAndInit ==
    /\ pc = "runDeploy"
    /\ \/ /\ Config' = LoadConfigOrDefaults(configFile, Cwd)
          /\ \/ Goto("listFunctions", Empty)
             \/ Exit(1, <<Printed("Error loading AWS configuration: %v", Empty)>>,
                     <<Call("load-aws-config", FALSE, NoArgs)>>)
       \/ \* getAppName: os.Getwd fails when the file configures no app name
          /\ LoadConfig(configFile).config.AppName = Empty
          /\ UNCHANGED Config
          /\ Exit(1, <<Printed("Error getting current directory: %v", Empty)>>,
                  <<Call("getwd", FALSE, NoArgs)>>)
    /\ UNCHANGED <<env, tail, listVars, deployVars, worldVars, histVars, tailVars>>

\* a listing that keeps only the page it read last
appendNames_LastPageOnly(acc, page) == page

\* the loop over one page's entries: append each name
appendNames(acc, page) == acc \o page

\* the log entry of a listing: made by the request for its first page
ListingCall(op) == IF requested = Empty THEN <<Call(op, TRUE, NoArgs)>> ELSE Empty

\* a loop that asks again with the marker it already used
FollowMarker_KeepsOld(current, next) == current

\* nextMarker = output.NextMarker: the next request carries the marker of
\* the page just read
FollowMarker(current, next) == next

\* one iteration of the loop of GetAvailableFunctions
GetAvailableFunctions ==
    /\ pc = "listFunctions"
    /\ requested' = Append(requested, nextMarker)
    /\ \/ /\ Exit(1, <<Printed("Error listing Lambda functions: %v", Empty)>>,
                  <<Call("list-functions", FALSE, NoArgs)>>)
          /\ UNCHANGED <<funcVars, served>>
       \/ \E page \in Pages(FunctionUniverse, functionNames),
             more \in {m \in BOOLEAN : m => Len(served) + 1 < MaxPages} :
             /\ served' = Append(served, page)
             /\ functionNames' = appendNames(functionNames, page)
             /\ IF more
                THEN /\ nextMarker' = FollowMarker(nextMarker, Len(served) + 2)
                     /\ Goto("listFunctions", ListingCall("list-functions"))
                     /\ UNCHANGED availableFunctions
                ELSE /\ availableFunctions' = functionNames'
                     /\ Goto("checkFunction", ListingCall("list-functions"))
                     /\ UNCHANGED nextMarker
    /\ UNCHANGED <<env, tail, Config, availableBuckets, groupVars, deployVars,
                   worldVars, histVars, tailVars>>

\* a report that names only the first of the available names
NotFound_FirstNameOnly(fmt1, name, fmt2, listing) ==
    <<Printed(fmt1, <<name>>),
      Printed(fmt2, <<IF listing = Empty THEN Empty ELSE listing[1]>>)>>

\* the two lines runDeploy and TailLogs print when a name is not in its listing
NotFound(fmt1, name, fmt2, listing) ==
    <<Printed(fmt1, <<name>>), Printed(fmt2, <<Join(listing, CommaSpace)>>)>>

\* runDeploy: the function must be among the available functions
CheckFunction ==
    /\ pc = "checkFunction"
    /\ IF ~contains(availableFunctions, Config.LambdaName)
       THEN /\ Exit(1, NotFound("Lambda function '%s' does not exist", Config.LambdaName,
                                "Available functions are: %s", availableFunctions),
                    <<Call("check-function", FALSE, [name |-> Config.LambdaName])>>)
            /\ UNCHANGED <<funcVars, pageVars, confirmed>>
       ELSE /\ Goto("listBuckets", <<Call("check-function", TRUE, [name |-> Config.LambdaName])>>)
            /\ confirmed' = confirmed \cup {"function"}
            \* the listing's locals are not read again
            /\ functionNames' = Empty
            /\ nextMarker' = 0
            /\ availableFunctions' = Empty
            /\ requested' = Empty
            /\ served' = Empty
    /\ UNCHANGED <<env, tail, Config, availableBuckets, groupVars, deployVars,
                   worldVars, run, previous, tailVars>>

\* GetAvailableBuckets: one unpaginated ListBuckets call
GetAvailableBuckets ==
    /\ pc = "listBuckets"
    /\ \/ /\ Exit(1, <<Printed("Error listing S3 buckets: %v", Empty)>>,
                  <<Call("list-buckets", FALSE, NoArgs)>>)
          /\ UNCHANGED <<availableBuckets, served>>
       \/ \E page \in DistinctSeqs(BucketUniverse, MaxPerPage + 1) :
             /\ served' = <<page>>
             /\ availableBuckets' = appendNames(Empty, page)
             /\ Goto("checkBucket", <<Call("list-buckets", TRUE, NoArgs)>>)
    /\ UNCHANGED <<env, tail, Config, funcVars, groupVars, requested, deployVars,
                   worldVars, histVars, tailVars>>

\* runDeploy: the bucket must be among the available buckets
CheckBucket ==
    /\ pc = "checkBucket"
    /\ IF ~contains(availableBuckets, Config.BuildsBucket)
       THEN /\ Exit(1, NotFound("S3 bucket %s does not exist", Config.BuildsBucket,
                                "Available buckets are: %s", availableBuckets),
                    <<Call("check-bucket", FALSE, [name |-> Config.BuildsBucket])>>)
            /\ UNCHANGED <<availableBuckets, served, confirmed>>
       ELSE /\ Goto("build", <<Call("check-bucket", TRUE, [name |-> Config.BuildsBucket])>>)
            /\ confirmed' = confirmed \cup {"bucket"}
            /\ availableBuckets' = Empty
            /\ served' = Empty
    /\ UNCHANGED <<env, tail, Config, funcVars, groupVars, requested, deployVars,
                   worldVars, run, previous, tailVars>>

(* ------------------------------------------------------------------ *)
(* Deployer.Build                                                      *)
(* ------------------------------------------------------------------ *)
\* what git rev-parse HEAD and git status --porcelain printed
GitOutput(r) == Call("git", TRUE, [head |-> r.head, status |-> StatusOutput(r)])

\* Build: currentGitCommit := getCurrentGitCommit()
BuildGitCommit ==
    /\ pc = "build"
    /\ \/ /\ Goto("compile", <<GitOutput(repo)>>)
          /\ currentGitCommit' = getCurrentGitCommit(repo)
       \/ /\ \E msg \in {"Error getting current Git commit: %v",
                         "Error checking git status: %v"} :
                Exit(1, <<Printed(msg, Empty)>>, <<Call("git", FALSE, NoArgs)>>)
          /\ UNCHANGED currentGitCommit
    /\ UNCHANGED <<env, tail, Config, listVars, publishOutput, waited,
                   worldVars, histVars, tailVars>>

\* Build: go build for the architecture determineFunctionArch reads from the
\* platform, then chmod of the binary
BuildCompile ==
    /\ pc = "compile"
    /\ LET getConf(ok) == Call("get-function-configuration", ok, [fn |-> Config.LambdaName])
           goBuild(ok) == Call("go-build", ok, [commit |-> currentGitCommit])
           arch == Printed("Architecture: %v", Empty)
       IN  \/ /\ Exit(1, <<Printed("Error getting function configuration: %v", Empty)>>,
                      <<getConf(FALSE)>>)
              /\ UNCHANGED repo
           \/ /\ Exit(1, <<arch, Printed("Error building the project: %v", Empty)>>,
                      <<getConf(TRUE), goBuild(FALSE)>>)
              /\ UNCHANGED repo
           \/ \* the compiler has written bootstrap into the working tree
              /\ repo' = [repo EXCEPT !.built = TRUE]
              /\ \/ Exit(1, <<arch, Printed("Error setting executable permissions on binary: %v",
                                            Empty)>>,
                         <<getConf(TRUE), goBuild(TRUE), Call("chmod", FALSE, NoArgs)>>)
                 \/ /\ pc' = "package"
                    /\ calls' = calls \o <<getConf(TRUE), goBuild(TRUE)>>
                    /\ stdout' = Append(stdout, arch)
                    /\ UNCHANGED exitCode
    /\ UNCHANGED <<env, tail, Config, listVars, deployVars, osArgs, configFile, cloud,
                   histVars, tailVars>>

\* Build: name the archive after a second getCurrentGitCommit() and write it
BuildPackage ==
    /\ pc = "package"
    /\ \/ /\ \E msg \in {"Error getting current Git commit: %v",
                         "Error checking git status: %v"} :
                Exit(1, <<Printed(msg, Empty)>>, <<Call("git", FALSE, NoArgs)>>)
          /\ UNCHANGED Config
       \/ /\ Config' = [Config EXCEPT !.SourceCodeFilename =
                           SourceCodeFilename(Config.LambdaName, getCurrentGitCommit(repo))]
          /\ LET zip(ok) == Call("zip", ok, [file |-> Config'.SourceCodeFilename])
             IN  \/ \E msg \in {"Error creating zip file: %v",
                                  "Error opening binary file: %v",
                                  "Error creating zip entry: %v",
                                  "Error writing binary to zip: %v",
                                  "Error finalizing zip file: %v"} :
                        Exit(1, <<Printed(msg, Empty)>>, <<GitOutput(repo), zip(FALSE)>>)
                 \/ Goto("upload", <<GitOutput(repo), zip(TRUE)>>)
    /\ UNCHANGED <<env, tail, listVars, deployVars, worldVars, histVars, tailVars>>

(* ------------------------------------------------------------------ *)
(* Deployer.Deploy                                                     *)
(* ------------------------------------------------------------------ *)
\* an upload whose key carries the number of the invocation
PutObjectInput_KeyPerInvocation(c) ==
    [bucket |-> c.BuildsBucket,
     key |-> IF run = 1 THEN c.SourceCodeFilename ELSE c.SourceCodeFilename \o <<"2">>,
     sse |-> Aes256]

\* the s3.PutObjectInput of uploadToS3
PutObjectInput(c) ==
    [bucket |-> c.BuildsBucket, key |-> c.SourceCodeFilename, sse |-> Aes256]

\* an update request that names the archive without its commit
UpdateFunctionCodeInput_KeyWithoutCommit(c) ==
    [fn |-> c.LambdaName, bucket |-> c.BuildsBucket, key |-> c.LambdaName \o ZipSuffix]

\* the lambda.UpdateFunctionCodeInput of Deploy
UpdateFunctionCodeInput(c) ==
    [fn |-> c.LambdaName, bucket |-> c.BuildsBucket, key |-> c.SourceCodeFilename]

\* an alias update that points at the version before the published one
UpdateAliasInput_PreviousVersion(c, version) ==
    [fn |-> c.LambdaName, name |-> Canary, version |-> version - 1]

\* an alias update that names the function of the default environment
UpdateAliasInput_StagFunction(c, version) ==
    [fn |-> c.AppName \o Dash \o Stag, name |-> Canary, version |-> version]

\* the lambda.UpdateAliasInput of Deploy
UpdateAliasInput(c, version) ==
    [fn |-> c.LambdaName, name |-> Canary, version |-> version]

\* uploadToS3: open the archive and upload it
uploadToS3 ==
    /\ pc = "upload"
    /\ \/ /\ Exit(1, <<Printed("Error opening zip file: %v", Empty)>>,
                  <<Call("open-zip", FALSE, NoArgs)>>)
          /\ UNCHANGED cloud
       \/ /\ Exit(1, <<Printed("Error uploading zip to S3: %v", Empty)>>,
                  <<Call("upload-blob", FALSE, PutObjectInput(Config))>>)
          /\ UNCHANGED cloud
       \/ /\ cloud' = [cloud EXCEPT !.blobs = @ \cup
                          {[bucket |-> PutObjectInput(Config).bucket,
                            key |-> PutObjectInput(Config).key]}]
          /\ pc' = "updateCode"
          /\ calls' = Append(calls, Call("upload-blob", TRUE, PutObjectInput(Config)))
          /\ stdout' = Append(stdout, Printed("Released %s to %s",
                                 <<Config.SourceCodeFilename, Config.BuildsBucket>>))
          /\ UNCHANGED exitCode
    /\ UNCHANGED <<env, tail, Config, listVars, deployVars, osArgs, configFile, repo,
                   histVars, tailVars>>

\* an UpdateFunctionCode whose error is printed but does not end the run
UpdateFunctionCode_ContinuesOnError ==
    /\ pc = "updateCode"
    /\ \/ /\ pc' = "wait"
          /\ stdout' = stdout \o <<Printed("Error updating Lambda function code: %v", Empty),
                                   Printed("Waiting for the function to be updated...", Empty)>>
          /\ calls' = Append(calls, Call("update-function-code", FALSE,
                                         UpdateFunctionCodeInput(Config)))
          /\ UNCHANGED <<exitCode, cloud>>
       \/ /\ cloud' = [cloud EXCEPT
                          !.code = [bucket |-> UpdateFunctionCodeInput(Config).bucket,
                                    key |-> UpdateFunctionCodeInput(Config).key],
                          !.status = "InProgress"]
          /\ pc' = "wait"
          /\ calls' = Append(calls, Call("update-function-code", TRUE,
                                         UpdateFunctionCodeInput(Config)))
          /\ stdout' = Append(stdout, Printed("Waiting for the function to be updated...", Empty))
          /\ UNCHANGED exitCode
    /\ UNCHANGED <<env, tail, Config, listVars, deployVars, osArgs, configFile, repo,
                   histVars, tailVars>>

\* Deploy: UpdateFunctionCode
UpdateFunctionCode ==
    /\ pc = "updateCode"
    /\ \/ /\ Exit(1, <<Printed("Error updating Lambda function code: %v", Empty)>>,
                  <<Call("update-function-code", FALSE, UpdateFunctionCodeInput(Config))>>)
          /\ UNCHANGED cloud
       \/ /\ cloud' = [cloud EXCEPT
                          !.code = [bucket |-> UpdateFunctionCodeInput(Config).bucket,
                                    key |-> UpdateFunctionCodeInput(Config).key],
                          !.status = "InProgress"]
          /\ pc' = "wait"
          /\ calls' = Append(calls, Call("update-function-code", TRUE,
                                         UpdateFunctionCodeInput(Config)))
          /\ stdout' = Append(stdout, Printed("Waiting for the function to be updated...", Empty))
          /\ UNCHANGED exitCode
    /\ UNCHANGED <<env, tail, Config, listVars, deployVars, osArgs, configFile, repo,
                   histVars, tailVars>>

\* a waiter whose clock does not advance while it sleeps
Elapse_ClockStands(t, d) == t

\* the time the waiter has used after sleeping d more
Elapse(t, d) == t + d

\* a waiter that takes the end of its time for the end of the update
WaiterOutcome_TimeoutIsSuccess(status, t) ==
    IF status = "Successful" THEN "updated"
    ELSE IF status = "Failed" THEN "failed"
    ELSE IF status = "Unavailable" THEN "error"
    ELSE IF t >= WaitCeiling THEN "updated"
    ELSE "retry"

\* what the waiter does with the answer to a poll once it has used t:
\* return nil, return an error, or poll again
WaiterOutcome(status, t) ==
    IF status = "Successful" THEN "updated"
    ELSE IF status = "Failed" THEN "failed"
    ELSE IF status = "Unavailable" THEN "error"
    ELSE IF t >= WaitCeiling THEN "timeout"
    ELSE "retry"

\* Deploy: one poll of waiter.Wait(ctx, GetFunctionInput, 5*time.Minute); the
\* answer is the state the platform is in, and the waiter sleeps before it
\* polls again
WaitPoll ==
    /\ pc = "wait"
    /\ \E d \in 1..MaxPollDelay :
          LET wait(ok, why) ==
                  Call("wait-function-updated", ok, [fn |-> Config.LambdaName, why |-> why])
              t == IF cloud.status = "InProgress" THEN Elapse(waited, d) ELSE waited
              outcome == WaiterOutcome(cloud.status, t)
          IN  IF outcome = "updated"
              THEN \* the waiter returns nil; its locals are gone
                   /\ Goto("publish", <<wait(TRUE, outcome)>>)
                   /\ waited' = 0
              ELSE IF outcome = "retry"
              THEN /\ waited' = t
                   /\ UNCHANGED <<pc, exitCode, stdout, calls>>
              ELSE /\ Exit(1, <<Printed("Error waiting for function update: %v", Empty)>>,
                           <<wait(FALSE, outcome)>>)
                   /\ waited' = t
    /\ UNCHANGED <<env, tail, Config, listVars, currentGitCommit, publishOutput,
                   worldVars, histVars, tailVars>>

\* the platform finishes applying the update, gives it up, or stops answering
PlatformUpdate ==
    /\ Running
    /\ cloud.status = "InProgress"
    /\ \E status \in {"Successful", "Failed", "Unavailable"} :
          cloud' = [cloud EXCEPT !.status = status]
    /\ UNCHANGED <<mainVars, listVars, deployVars, osArgs, configFile, repo, outVars,
                   histVars, tailVars>>

\* Deploy: PublishVersion
PublishVersion ==
    /\ pc = "publish"
    /\ LET publish(ok, v) == Call("publish-version", ok, [fn |-> Config.LambdaName, version |-> v])
       IN  \/ /\ Exit(1, <<Printed("Error publishing new Lambda version: %v", Empty)>>,
                      <<publish(FALSE, 0)>>)
              /\ UNCHANGED <<cloud, publishOutput>>
           \/ \* a new version, or the latest one again when the code is the same
              \E version \in {cloud.latest + 1} \cup (IF cloud.latest > 0 THEN {cloud.latest} ELSE {}) :
                 /\ cloud' = [cloud EXCEPT !.latest = version]
                 /\ publishOutput' = version
                 /\ Goto("alias", <<publish(TRUE, version)>>)
    /\ UNCHANGED <<env, tail, Config, listVars, currentGitCommit, waited,
                   osArgs, configFile, repo, histVars, tailVars>>

\* an UpdateAlias that deletes the uploaded archive when it fails
UpdateAlias_DeletesBlobOnError ==
    /\ pc = "alias"
    /\ LET alias(ok) == Call("update-alias", ok, UpdateAliasInput(Config, publishOutput))
           done == Printed("Published new version %s and updated alias 'canary' to point to it",
                           <<publishOutput>>)
       IN  \/ /\ Exit(1, <<Printed("Error updating Lambda alias 'canary': %v", Empty)>>,
                      <<alias(FALSE)>>)
              /\ cloud' = [cloud EXCEPT !.blobs = {}]
           \/ /\ cloud' = [cloud EXCEPT !.alias = UpdateAliasInput(Config, publishOutput).version]
              /\ IF tail
                 THEN /\ pc' = "listLogGroups"
                      /\ calls' = Append(calls, alias(TRUE))
                      /\ stdout' = Append(stdout, done)
                      /\ UNCHANGED exitCode
                 ELSE Exit(0, <<done>>, <<alias(TRUE)>>)
    /\ UNCHANGED <<env, tail, Config, listVars, deployVars, osArgs, configFile, repo,
                   histVars, tailVars>>

\* Deploy: UpdateAlias of "canary"; then runDeploy tails the logs or returns
UpdateAlias ==
    /\ pc = "alias"
    /\ LET alias(ok) == Call("update-alias", ok, UpdateAliasInput(Config, publishOutput))
           done == Printed("Published new version %s and updated alias 'canary' to point to it",
                           <<publishOutput>>)
       IN  \/ /\ Exit(1, <<Printed("Error updating Lambda alias 'canary': %v", Empty)>>,
                      <<alias(FALSE)>>)
              /\ UNCHANGED cloud
           \/ /\ cloud' = [cloud EXCEPT !.alias = UpdateAliasInput(Config, publishOutput).version]
              /\ IF tail
                 THEN /\ pc' = "listLogGroups"
                      /\ calls' = Append(calls, alias(TRUE))
                      /\ stdout' = Append(stdout, done)
                      /\ UNCHANGED exitCode
                 ELSE Exit(0, <<done>>, <<alias(TRUE)>>)
    /\ UNCHANGED <<env, tail, Config, listVars, deployVars, osArgs, configFile, repo,
                   histVars, tailVars>>

(* ------------------------------------------------------------------ *)
(* Deployer.TailLogs                                                   *)
(* ------------------------------------------------------------------ *)
\* one iteration of the loop of getAvailableLogGroups
getAvailableLogGroups ==
    /\ pc = "listLogGroups"
    /\ requested' = Append(requested, nextToken)
    /\ \/ /\ Exit(1, <<Printed("Error describing log groups: %v", Empty)>>,
                  <<Call("describe-log-groups", FALSE, NoArgs)>>)
          /\ UNCHANGED <<groupVars, served>>
       \/ \E page \in Pages(LogGroupUniverse, logGroupNames),
             more \in {m \in BOOLEAN : m => Len(served) + 1 < MaxPages} :
             /\ served' = Append(served, page)
             /\ logGroupNames' = appendNames(logGroupNames, page)
             /\ IF more
                THEN /\ nextToken' = FollowMarker(nextToken, Len(served) + 2)
                     /\ Goto("listLogGroups", ListingCall("describe-log-groups"))
                     /\ UNCHANGED availableLogGroups
                ELSE /\ availableLogGroups' = logGroupNames'
                     /\ Goto("checkLogGroup", ListingCall("describe-log-groups"))
                     /\ UNCHANGED nextToken
             /\ UNCHANGED logGroupArn
    /\ UNCHANGED <<env, tail, Config, funcVars, availableBuckets, deployVars,
                   worldVars, histVars, tailVars>>

\* TailLogs: the log group must be among the available log groups
CheckLogGroup ==
    /\ pc = "checkLogGroup"
    /\ IF ~contains(availableLogGroups, Config.LogGroupName)
       THEN /\ Exit(1, NotFound("Log group %s does not exist", Config.LogGroupName,
                                "Available log groups are: %s", availableLogGroups),
                    <<Call("check-log-group", FALSE, [name |-> Config.LogGroupName])>>)
            /\ UNCHANGED <<groupVars, pageVars, confirmed>>
       ELSE /\ Goto("getArn", <<Call("check-log-group", TRUE, [name |-> Config.LogGroupName])>>)
            /\ confirmed' = confirmed \cup {"logGroup"}
            \* the loop's locals are gone; availableLogGroups is what the
            \* account holds when the prefix lookup is made
            /\ logGroupNames' = Empty
            /\ nextToken' = 0
            /\ requested' = Empty
            /\ served' = Empty
            /\ UNCHANGED <<availableLogGroups, logGroupArn>>
    /\ UNCHANGED <<env, tail, Config, funcVars, availableBuckets, deployVars,
                   worldVars, run, previous, tailVars>>

HasPrefix(s, prefix) == Len(s) >= Len(prefix) /\ SubSeq(s, 1, Len(prefix)) = prefix

\* the groups a DescribeLogGroups with LogGroupNamePrefix can return
PrefixMatches(groups, prefix) == {g \in Range(groups) : HasPrefix(g, prefix)}

\* an identifier that is passed on as the platform gave it
FirstArn_Untrimmed(output) == output[1].arn

\* strings.TrimSuffix(*output.LogGroups[0].Arn, ":*")
FirstArn(output) == TrimSuffix(output[1].arn, WildcardSuffix)

\* getARNofLogGroup: the first group of the prefix lookup, ":*" trimmed
getARNofLogGroup ==
    /\ pc = "getArn"
    /\ LET lookup(ok) == Call("describe-log-groups-prefix", ok, [prefix |-> Config.LogGroupName])
       IN  \/ /\ Exit(1, <<Printed("Error describing log groups: %v", Empty)>>, <<lookup(FALSE)>>)
              /\ UNCHANGED <<logGroupArn, availableLogGroups, served>>
           \/ \E matches \in DistinctSeqs(PrefixMatches(availableLogGroups, Config.LogGroupName),
                                          MaxPerPage + 1),
                 star \in {Empty, WildcardSuffix} :
                 LET output == [i \in 1..Len(matches) |->
                                   [name |-> matches[i],
                                    arn |-> ArnPrefix \o matches[i] \o star]]
                 IN
                 IF Len(output) = 0
                 THEN /\ Exit(1, <<Printed("No log groups found for the given prefix %s",
                                           <<Config.LogGroupName>>)>>,
                              <<lookup(TRUE), Call("first-log-group", FALSE, NoArgs)>>)
                      /\ UNCHANGED <<logGroupArn, availableLogGroups, served>>
                 ELSE /\ logGroupArn' = FirstArn(output)
                      \* the answer, until StartLiveTail has used the identifier
                      /\ served' = <<output>>
                      /\ Goto("startLiveTail", <<lookup(TRUE)>>)
                      \* availableLogGroups is not read again
                      /\ availableLogGroups' = Empty
    /\ UNCHANGED <<env, tail, Config, funcVars, availableBuckets, logGroupNames, nextToken,
                   requested, deployVars, worldVars, histVars, tailVars>>

\* a StartLiveTail that is tried again when it fails
StartLiveTail_RetriesOnError ==
    /\ pc = "startLiveTail"
    /\ LET start(ok) == Call("start-live-tail", ok, [group |-> logGroupArn])
       IN  \/ /\ Goto("startLiveTail", <<start(FALSE)>>)
              /\ UNCHANGED <<chan, cpc, logGroupArn, served>>
           \/ /\ Goto("sleep", <<start(TRUE)>>)
              /\ chan' = "open"
              /\ cpc' = "recv"
              /\ logGroupArn' = Empty
              /\ served' = Empty
    /\ UNCHANGED <<env, tail, Config, funcVars, availableBuckets, logGroupNames, nextToken,
                   availableLogGroups, requested, deployVars, worldVars, histVars,
                   streamErr, closedByCaller, framesLeft, event, lineNo, rendered, delivered>>

\* TailLogs: StartLiveTail, then go handleEventStreamAsync(stream)
StartLiveTail ==
    /\ pc = "startLiveTail"
    /\ LET start(ok) == Call("start-live-tail", ok, [group |-> logGroupArn])
       IN  \/ /\ Exit(1, <<Printed("Failed to start streaming: %v", Empty)>>, <<start(FALSE)>>)
              /\ served' = Empty
              /\ UNCHANGED <<chan, cpc, logGroupArn>>
           \/ /\ Goto("sleep", <<start(TRUE)>>)
              /\ chan' = "open"
              /\ cpc' = "recv"
              /\ logGroupArn' = Empty
              /\ served' = Empty
    /\ UNCHANGED <<env, tail, Config, funcVars, availableBuckets, logGroupNames, nextToken,
                   availableLogGroups, requested, deployVars, worldVars, histVars,
                   streamErr, closedByCaller, framesLeft, event, lineNo, rendered, delivered>>

\* a Close that leaves an error for stream.Err()
CloseStream_LeavesError ==
    /\ pc = "sleep"
    /\ chan' = "closed"
    /\ closedByCaller' = TRUE
    /\ streamErr' = TRUE
    /\ Goto("return", <<Call("close-stream", TRUE, NoArgs)>>)
    /\ UNCHANGED <<env, tail, Config, listVars, deployVars, worldVars, histVars,
                   framesLeft, consumerVars>>

\* TailLogs: the 300 seconds are over; stream.Close()
CloseStream ==
    /\ pc = "sleep"
    /\ chan' = "closed"
    /\ closedByCaller' = TRUE
    /\ Goto("return", <<Call("close-stream", TRUE, NoArgs)>>)
    /\ UNCHANGED <<env, tail, Config, listVars, deployVars, worldVars, histVars,
                   streamErr, framesLeft, consumerVars>>

\* TailLogs, runDeploy and main return: the process ends with code 0
Return ==
    /\ pc = "return"
    /\ Exit(0, Empty, Empty)
    /\ UNCHANGED <<env, tail, Config, listVars, deployVars, worldVars, histVars, tailVars>>

(* ------------------------------------------------------------------ *)
(* The transport and handleEventStreamAsync                            *)
(* ------------------------------------------------------------------ *)
Frames ==
    {[type |-> "start", lines |-> Empty], [type |-> "unknown", lines |-> Empty]}
    \cup {[type |-> "update", lines |-> ls] : ls \in DistinctSeqs(LogLines, MaxLines)}

\* the transport ends by itself: end of stream, or an error it keeps for Err()
TransportEnd ==
    /\ Running
    /\ chan = "open"
    /\ chan' = "closed"
    /\ \E failed \in BOOLEAN : streamErr' = failed
    /\ UNCHANGED <<mainVars, listVars, deployVars, worldVars, outVars, histVars,
                   closedByCaller, framesLeft, consumerVars>>

\* event := <-eventsChan: a frame, or nil once the channel is closed
ConsumerRecv ==
    /\ Running
    /\ cpc = "recv"
    /\ \/ /\ chan = "open"
          /\ framesLeft > 0
          /\ \E f \in Frames : event' = f
          /\ framesLeft' = framesLeft - 1
       \/ /\ chan = "closed"
          /\ event' = NilEvent
          /\ UNCHANGED framesLeft
    /\ delivered' = Append(delivered, event')
    /\ cpc' = "switch"
    /\ lineNo' = 0
    /\ UNCHANGED <<mainVars, listVars, deployVars, worldVars, outVars, histVars,
                   chan, streamErr, closedByCaller, rendered>>

\* a consumer that returns once the session has started
AfterSessionStart_Returns == "done"

\* the case of a session-start frame ends in continue: the next receive
AfterSessionStart == "recv"

\* the line the consumer prints for a session-start frame
SessionStartNotice == Printed("Logs streaming session started", Empty)

\* a default branch that never asks the transport for its error
DefaultBranch_ErrorIsIgnored(err, e) ==
    IF e = NilEvent THEN "return" ELSE "unknown"

\* a default branch that takes the nil frame for a frame of unknown type
DefaultBranch_NilIsUnknown(err, e) ==
    IF err THEN "err" ELSE "unknown"

\* a default branch that returns quietly when the transport has an error
DefaultBranch_ErrorReturnsQuietly(err, e) ==
    IF err THEN "return" ELSE IF e = NilEvent THEN "return" ELSE "unknown"

\* the default branch of the type switch: stream.Err() first, then the nil check
DefaultBranch(err, e) ==
    IF err THEN "err" ELSE IF e = NilEvent THEN "return" ELSE "unknown"

\* the type switch of handleEventStreamAsync, up to the first log line
ConsumerSwitch ==
    /\ Running
    /\ cpc = "switch"
    /\ IF event.type = "start"
       THEN /\ stdout' = Append(stdout, SessionStartNotice)
            /\ cpc' = AfterSessionStart
            /\ UNCHANGED <<pc, exitCode, calls>>
       ELSE IF event.type = "update"
       THEN /\ cpc' = IF Len(event.lines) = 0 THEN "recv" ELSE "render"
            /\ UNCHANGED <<pc, exitCode, stdout, calls>>
       ELSE IF DefaultBranch(streamErr, event) = "err"
       THEN /\ Exit(1, <<Printed("Error occured during streaming: %v", Empty)>>,
                    <<Call("stream", FALSE, [why |-> "err"])>>)
            /\ cpc' = "fatal"
       ELSE IF DefaultBranch(streamErr, event) = "return"
       THEN /\ cpc' = "done"
            /\ UNCHANGED <<pc, exitCode, stdout, calls>>
       ELSE /\ Exit(1, <<Printed("Unknown event type: %T", Empty)>>,
                    <<Call("stream", FALSE, [why |-> "unknown"])>>)
            /\ cpc' = "fatal"
    /\ UNCHANGED <<env, tail, Config, listVars, deployVars, worldVars, histVars,
                   streamVars, event, lineNo, rendered, delivered>>

\* a loop that walks the frame's results from the last to the first
SessionResult_Reversed(e, n) == e.lines[Len(e.lines) - n + 1]

\* the n-th element of e.Value.SessionResults, as range visits them
SessionResult(e, n) == e.lines[n]

\* log.Println(*logEvent.Message) for the next of the frame's results
ConsumerRender ==
    /\ Running
    /\ cpc = "render"
    /\ lineNo' = lineNo + 1
    /\ rendered' = Append(rendered, [line |-> SessionResult(event, lineNo'),
                                     afterClose |-> closedByCaller])
    /\ cpc' = IF lineNo' = Len(event.lines) THEN "recv" ELSE "render"
    /\ UNCHANGED <<mainVars, listVars, deployVars, worldVars, outVars, histVars,
                   streamVars, event, delivered>>

(* ------------------------------------------------------------------ *)
(* The specification                                                   *)
(* ------------------------------------------------------------------ *)
MainStep ==
    \/ Main
    \/ LoadAndInit
    \/ GetAvailableFunctions
    \/ CheckFunction
    \/ GetAvailableBuckets
    \/ CheckBucket
    \/ BuildGitCommit
    \/ BuildCompile
    \/ BuildPackage
    \/ uploadToS3
    \/ UpdateFunctionCode
    \/ WaitPoll
    \/ PublishVersion
    \/ UpdateAlias
    \/ getAvailableLogGroups
    \/ CheckLogGroup
    \/ getARNofLogGroup
    \/ StartLiveTail
    \/ CloseStream
    \/ Return

ConsumerStep == ConsumerRecv \/ ConsumerSwitch \/ ConsumerRender

Next == MainStep \/ ConsumerStep \/ TransportEnd \/ PlatformUpdate

Spec == Init /\ [][Next]_vars

(* ------------------------------------------------------------------ *)
(* Running the tool again                                              *)
(* ------------------------------------------------------------------ *)
\* a new process: every variable of the program is as at its start
ResetProcess ==
    /\ pc' = "main"
    /\ exitCode' = -1
    /\ env' = Empty
    /\ tail' = FALSE
    /\ Config' = ZeroConfig
    /\ functionNames' = Empty
    /\ nextMarker' = 0
    /\ availableFunctions' = Empty
    /\ availableBuckets' = Empty
    /\ logGroupNames' = Empty
    /\ nextToken' = 0
    /\ availableLogGroups' = Empty
    /\ logGroupArn' = Empty
    /\ requested' = Empty
    /\ served' = Empty
    /\ currentGitCommit' = Empty
    /\ publishOutput' = 0
    /\ waited' = 0
    /\ stdout' = Empty
    /\ calls' = Empty
    /\ confirmed' = {}
    /\ chan' = "none"
    /\ streamErr' = FALSE
    /\ closedByCaller' = FALSE
    /\ framesLeft' = MainFrames
    /\ cpc' = "none"
    /\ event' = NilEvent
    /\ lineNo' = 0
    /\ rendered' = Empty
    /\ delivered' = Empty

\* the tool is run a second time, with the same command line and deploy.conf,
\* in the working tree and the account the first run left; in between the
\* user may have committed or edited
Rerun ==
    /\ pc = "exited"
    /\ run = 1
    /\ run' = 2
    /\ previous' = calls
    /\ ResetProcess
    /\ \E head \in Commits, userDirty \in BOOLEAN :
          repo' = [repo EXCEPT !.head = head, !.userDirty = userDirty]
    /\ UNCHANGED <<osArgs, configFile, cloud>>

\* two runs without --tail
InitRerun ==
    /\ InitProcess
    /\ osArgs = [env |-> Empty, tail |-> FALSE, valid |-> TRUE]
    /\ configFile \in ConfigFiles
    /\ framesLeft = MainFrames
    /\ repo \in Repos
    /\ cloud \in Clouds
    /\ run = 1
    /\ previous = Empty

DeployStep ==
    \/ Main
    \/ LoadAndInit
    \/ GetAvailableFunctions
    \/ CheckFunction
    \/ GetAvailableBuckets
    \/ CheckBucket
    \/ BuildGitCommit
    \/ BuildCompile
    \/ BuildPackage
    \/ uploadToS3
    \/ UpdateFunctionCode
    \/ WaitPoll
    \/ PublishVersion
    \/ UpdateAlias

NextRerun == DeployStep \/ PlatformUpdate \/ Rerun

SpecRerun == InitRerun /\ [][NextRerun]_vars

(* ------------------------------------------------------------------ *)
(* A run with --tail, followed through a longer session                *)
(* ------------------------------------------------------------------ *)
\* deploy --tail in a clean working tree without deploy.conf; the transport
\* can deliver up to MaxFrames frames
InitTail ==
    /\ InitProcess
    /\ osArgs = [env |-> Empty, tail |-> TRUE, valid |-> TRUE]
    /\ configFile = NoFile
    /\ framesLeft = MaxFrames
    /\ repo = [head |-> CommitA, userDirty |-> FALSE, ignored |-> TRUE, built |-> FALSE]
    /\ cloud = InitCloud
    /\ run = 1
    /\ previous = Empty

SpecTail == InitTail /\ [][Next]_vars

(* ------------------------------------------------------------------ *)
(* Loading the configuration, over every deploy.conf                   *)
(* ------------------------------------------------------------------ *)
InitConfig ==
    /\ InitProcess
    /\ osArgs \in CommandLines
    /\ configFile \in AllConfigFiles
    /\ framesLeft = MainFrames
    /\ repo = [head |-> CommitA, userDirty |-> FALSE, ignored |-> TRUE, built |-> FALSE]
    /\ cloud = InitCloud
    /\ run = 1
    /\ previous = Empty

\* main up to the end of configuration loading
NextConfig == Main \/ LoadAndInit

SpecConfig == InitConfig /\ [][NextConfig]_vars

(* ------------------------------------------------------------------ *)
(* Properties                                                          *)
(* ------------------------------------------------------------------ *)
Resources == {"function", "bucket", "logGroup"}
MutatingOps == {"upload-blob", "update-function-code", "publish-version", "update-alias"}

Issued(op) == {i \in 1..Len(calls) : calls[i].op = op}
Succeeded(op) == {i \in Issued(op) : calls[i].ok}
Exited == pc = "exited"

\* the entries a step appends to the log of operations
NewCalls == {calls'[i] : i \in (Len(calls) + 1)..Len(calls')}

\* the names on the pages served to the listing in progress
ServedNames == UNION {Range(served[i]) : i \in 1..Len(served)}

\* C1: no mutating platform call (upload-blob, update-function-code,
\* publish-version, update-alias) is issued until the existence of all three
\* configured names, function, bucket and log group, has been confirmed.
C1_NoMutationBeforeAllConfirmed ==
    [][(\E c \in NewCalls : c.op \in MutatingOps) => Resources \subseteq confirmed]_vars

\* what the code does ensure: function and bucket are confirmed before any
\* mutating call
C1_FunctionAndBucketConfirmed ==
    [][(\E c \in NewCalls : c.op \in MutatingOps) => {"function", "bucket"} \subseteq confirmed]_vars

StageOf(op) ==
    CASE op \in {"parse-flags", "load-aws-config", "getwd"} -> 0
      [] op \in {"list-functions", "check-function", "list-buckets", "check-bucket"} -> 1
      [] op \in {"git", "get-function-configuration", "go-build", "chmod", "zip"} -> 2
      [] op \in {"open-zip", "upload-blob", "update-function-code"} -> 3
      [] op \in {"wait-function-updated"} -> 4
      [] op \in {"publish-version", "update-alias"} -> 5
      [] OTHER -> 6

\* the operation whose success an operation's stage, or step in it, waits for
Requires(op) ==
    CASE op = "git" -> {"check-function", "check-bucket"}
      [] op = "upload-blob" -> {"zip"}
      [] op = "update-function-code" -> {"upload-blob"}
      [] op = "wait-function-updated" -> {"update-function-code"}
      [] op = "publish-version" -> {"wait-function-updated"}
      [] op = "update-alias" -> {"publish-version"}
      [] op = "describe-log-groups" -> {"update-alias"}
      [] op = "start-live-tail" -> {"update-alias"}
      [] OTHER -> {}

\* C2: the stages run in the order Resolver, Build/Package, Publisher (upload,
\* then update-function-code), Waiter, Promoter (publish-version, then
\* update-alias), Log Tail Session; a stage starts only after the stage before
\* it succeeded; after a failed operation nothing more is issued.
C2_StagesInOrder ==
    /\ \A i, j \in 1..Len(calls) : i < j => StageOf(calls[i].op) <= StageOf(calls[j].op)
    /\ \A j \in 1..Len(calls) :
          \A r \in Requires(calls[j].op) : \E i \in Succeeded(r) : i < j
    /\ \A i \in 1..Len(calls) : ~calls[i].ok => (i = Len(calls) /\ Exited /\ exitCode = 1)

C2_Witness ==
    /\ Exited
    /\ Succeeded("start-live-tail") # {}
    /\ Succeeded("list-functions") # {}

\* C3: the names a paginated listing (functions, log groups) returns are the
\* names of all the pages served, in order, so a name that is only on a later
\* page is found and not reported missing.
C3_ListingIsUnionOfPages ==
    /\ pc = "checkFunction" =>
          /\ availableFunctions = Flatten(served)
          /\ Range(availableFunctions) = ServedNames
    /\ pc = "checkLogGroup" =>
          /\ availableLogGroups = Flatten(served)
          /\ Range(availableLogGroups) = ServedNames
    /\ (Exited /\ \E i \in Issued("check-function") : ~calls[i].ok) =>
          Config.LambdaName \notin ServedNames
    /\ (Exited /\ \E i \in Issued("check-log-group") : ~calls[i].ok) =>
          Config.LogGroupName \notin ServedNames

C3_Witness ==
    /\ pc = "checkFunction"
    /\ Len(served) >= 2
    /\ Config.LambdaName \in Range(served[2])
    /\ Config.LambdaName \notin Range(served[1])
    /\ Range(served[1]) # {}

\* the report of a failed existence check: the last line printed
LastPrinted == stdout[Len(stdout)]
CheckFailed(op) == Exited /\ \E i \in Issued(op) : ~calls[i].ok
AvailableFmt(op) ==
    CASE op = "check-function" -> "Available functions are: %s"
      [] op = "check-bucket" -> "Available buckets are: %s"
      [] op = "check-log-group" -> "Available log groups are: %s"

\* C4: when the requested function, bucket or log group is not in its listing,
\* the run fails with a message that contains every name the listing returned
\* and issues nothing after the check.
C4_NotFoundListsAllNames ==
    \A op \in {"check-function", "check-bucket", "check-log-group"} :
        CheckFailed(op) =>
            /\ exitCode = 1
            /\ calls[Len(calls)].op = op
            /\ LastPrinted.fmt = AvailableFmt(op)
            /\ \A n \in ServedNames : IsSubstring(n, LastPrinted.args[1])

C4_Witness ==
    /\ CheckFailed("check-function")
    /\ Cardinality(ServedNames) >= 2

\* C5: update-function-code is issued only right after a successful upload, for
\* the bucket and key of that upload; the key is the archive's file name and
\* the upload asks for server-side encryption.
C5_UpdateReferencesUpload ==
    /\ \A j \in Issued("update-function-code") :
          /\ j > 1
          /\ calls[j - 1].op = "upload-blob"
          /\ calls[j - 1].ok
          /\ calls[j].args.bucket = calls[j - 1].args.bucket
          /\ calls[j].args.key = calls[j - 1].args.key
    /\ \A i \in Issued("upload-blob") :
          /\ calls[i].args.sse = Aes256
          /\ i > 1
          /\ calls[i - 1].op = "zip"
          /\ calls[i].args.key = calls[i - 1].args.file
    /\ \A i \in Succeeded("upload-blob") :
          [bucket |-> calls[i].args.bucket, key |-> calls[i].args.key] \in cloud.blobs

C5_Witness == Succeeded("update-function-code") # {}

\* the entries of a log of operations for one operation
Entries(log, op) == SelectSeq(log, LAMBDA c : c.op = op)

\* what git printed for the query that names the archive: the last one
NamingQuery(log) == Entries(log, "git")[Len(Entries(log, "git"))].args

\* both invocations have uploaded, at the same commit, and in neither did the
\* user have uncommitted changes
SameCleanCommit ==
    /\ run = 2
    /\ Entries(previous, "upload-blob") # Empty
    /\ Entries(calls, "upload-blob") # Empty
    /\ NamingQuery(previous).head = NamingQuery(calls).head
    /\ "changes" \notin NamingQuery(previous).status
    /\ "changes" \notin NamingQuery(calls).status

C7_PublishOnlyAfterConvergence ==
    /\ \A j \in Issued("publish-version") \cup Issued("update-alias") :
          \E i \in Succeeded("wait-function-updated") : i < j
    /\ \A i \in Succeeded("wait-function-updated") : cloud.status = "Successful"
    /\ \A i \in Issued("wait-function-updated") :
          /\ calls[i].args.why = "timeout" => waited >= WaitCeiling
          /\ ~calls[i].ok =>
                /\ Exited /\ exitCode = 1
                /\ Issued("publish-version") = {}
                /\ Issued("update-alias") = {}
    /\ pc = "wait" => waited < WaitCeiling

C7_Witness ==
    /\ Exited
    /\ \E i \in Issued("wait-function-updated") : calls[i].args.why = "timeout"
    /\ Issued("publish-version") = {}

\* the main goroutine runs whenever it can
Fairness == WF_vars(MainStep)
FairSpec == Spec /\ Fairness

\* C8: the wait always ends: when the platform never reports the update
\* applied, the waiter returns once its ceiling is used up and the run ends.
C8_WaiterTerminates == (pc = "wait") ~> (pc = "publish" \/ Exited)

C8_Witness ==
    /\ Exited
    /\ cloud.status = "InProgress"
    /\ waited >= WaitCeiling
    /\ ~calls[Len(calls)].ok
    /\ calls[Len(calls)].op = "wait-function-updated"

\* C9: update-alias is issued right after a successful publish-version, for the
\* alias "canary" of the same function and the version that publish-version
\* returned, also when that version is the one the alias has; once
\* publish-version has succeeded the next operation is update-alias.
C9_AliasFollowsPublish ==
    /\ \A j \in Issued("update-alias") :
          /\ j > 1
          /\ calls[j - 1].op = "publish-version"
          /\ calls[j - 1].ok
          /\ calls[j].args.name = Canary
          /\ calls[j].args.fn = calls[j - 1].args.fn
          /\ calls[j].args.version = calls[j - 1].args.version
    /\ \A i \in Succeeded("publish-version") :
          \/ pc = "alias" /\ i = Len(calls)
          \/ i < Len(calls) /\ calls[i + 1].op = "update-alias"
    /\ \A j \in Succeeded("update-alias") : cloud.alias = calls[j].args.version

C9_Witness ==
    \E j \in Succeeded("update-alias") : calls[j].args.version = 6

\* C10: the process exits with code 1 on every fatal error and with code 0
\* exactly when every operation of the run succeeded.
C10_ExitCodes ==
    /\ exitCode \in {-1, 0, 1}
    /\ Exited <=> exitCode # -1
    /\ (\E i \in 1..Len(calls) : ~calls[i].ok) => exitCode = 1
    /\ exitCode = 1 => \E i \in 1..Len(calls) : ~calls[i].ok
    /\ exitCode = 0 =>
          /\ Succeeded("update-alias") # {}
          /\ tail => Succeeded("close-stream") # {}

C10_Witness ==
    /\ exitCode = 1
    /\ calls[Len(calls)].op = "stream"
    /\ Succeeded("update-alias") # {}

\* the log lines of the session-update frames among frames, in order
LinesOf(frames) ==
    Flatten([i \in 1..Len(frames) |->
                IF frames[i].type = "update" THEN frames[i].lines ELSE Empty])

\* the log lines the consumer has written, in order
RenderedLines == [i \in 1..Len(rendered) |-> rendered[i].line]

\* C11: the caller's close ends the session: once stream.Close() has been
\* called the channel is closed and the consumer writes no further log line.
C11_NoOutputAfterClose ==
    /\ closedByCaller => chan = "closed"
    /\ \A i \in 1..Len(rendered) : ~rendered[i].afterClose

\* C13: the lines written are the lines of the delivered session-update
\* frames, each once, in the order of the frames and of the lines in a frame;
\* whenever the consumer is between frames, none is missing.
C13_RendersDeliveredInOrder ==
    /\ Len(rendered) <= Len(LinesOf(delivered))
    /\ RenderedLines = SubSeq(LinesOf(delivered), 1, Len(rendered))
    /\ cpc \in {"recv", "done", "fatal"} => RenderedLines = LinesOf(delivered)
    /\ cpc = "render" =>
          RenderedLines = LinesOf(SubSeq(delivered, 1, Len(delivered) - 1))
                              \o SubSeq(event.lines, 1, lineNo)
    /\ cpc = "switch" =>
          RenderedLines = LinesOf(SubSeq(delivered, 1, Len(delivered) - 1))

C13_Witness ==
    /\ cpc = "recv"
    /\ Len(rendered) = 3
    /\ \E i \in 1..Len(delivered) : Len(delivered[i].lines) = 2
    /\ delivered[1].type = "update"
    /\ Len(delivered[1].lines) = 1

\* C14: when the consumer has received the nil frame and the transport's
\* error is nil, its next step is to return: no fatal exit, the exit code, the
\* output and the main goroutine are untouched, and once it has returned
\* it writes nothing more.
C14_CleanExitOnNil ==
    [][/\ (cpc = "switch" /\ event = NilEvent /\ ~streamErr /\ cpc' # cpc) =>
             /\ cpc' = "done"
             /\ UNCHANGED <<pc, exitCode, stdout, calls, rendered>>
       /\ cpc = "done" => (cpc' = "done" /\ UNCHANGED <<rendered, delivered>>)]_vars

C14_Witness ==
    /\ cpc = "done"
    /\ Running
    /\ Len(delivered) = 4
    /\ delivered[1].type = "start"
    /\ delivered[4] = NilEvent
    /\ Len(RenderedLines) = 2
    /\ RenderedLines = delivered[2].lines \o delivered[3].lines

\* C15: a frame of unknown type met while the transport's error is non-nil is
\* fatal: the process exits with code 1, and after a fatal exit no frame is
\* received and no line is written.
C15_UnknownFrameWithErrorIsFatal ==
    [][/\ (cpc = "switch" /\ event.type = "unknown" /\ streamErr /\ cpc' # cpc) =>
             /\ cpc' = "fatal"
             /\ exitCode' = 1
             /\ pc' = "exited"
             /\ UNCHANGED rendered
       /\ cpc = "fatal" => (cpc' = "fatal" /\ exitCode' = 1 /\ UNCHANGED <<rendered, delivered>>)]_vars

C15_Witness ==
    /\ cpc = "fatal"
    /\ streamErr
    /\ delivered[Len(delivered)].type = "unknown"
    /\ Len(rendered) > 0

\* the state of the log tail session, read off the program's state: the
\* subscription is open (Starting), the consumer has received a session-start
\* frame (Streaming), the caller has called stream.Close() (Closing), the
\* consumer has returned on the nil frame or the process has returned
\* (Closed), the consumer has hit log.Fatalf (Failed)
SessionState ==
    IF chan = "none" THEN "None"
    ELSE IF cpc = "fatal" THEN "Failed"
    ELSE IF cpc = "done" \/ pc = "exited" THEN "Closed"
    ELSE IF closedByCaller THEN "Closing"
    ELSE IF \E i \in 1..Len(delivered) : delivered[i].type = "start" THEN "Streaming"
    ELSE "Starting"

\* the moves of a session that the spec lists, each with its cause
SessionMove ==
    \/ /\ SessionState = "None" /\ SessionState' = "Starting"
       /\ pc = "startLiveTail"
    \/ /\ SessionState = "Starting" /\ SessionState' = "Streaming"
       /\ event'.type = "start"
    \/ /\ SessionState \in {"Starting", "Streaming"} /\ SessionState' = "Closing"
       /\ pc = "sleep" /\ closedByCaller'
    \/ /\ SessionState \in {"Starting", "Streaming", "Closing"} /\ SessionState' = "Closed"
       /\ chan = "closed"
       /\ ~streamErr \/ closedByCaller
       /\ UNCHANGED exitCode \/ exitCode' = 0
    \/ /\ SessionState \in {"Starting", "Streaming", "Closing"} /\ SessionState' = "Failed"
       /\ streamErr \/ event.type = "unknown"
       /\ exitCode' = 1

\* C12: the session moves only Starting -> Streaming on a session-start
\* frame, to Closing on the caller's close, to Closed when the transport is
\* shut, to Failed on a transport error or unknown frame; in Failed (and in
\* Closed) no frame is received, no line written, the subscription is not
\* made again; and the consumer never returns cleanly with the error set.
C12_SessionTransitions ==
    [][/\ SessionState' # SessionState => SessionMove
       /\ SessionState \in {"Failed", "Closed"} =>
             /\ UNCHANGED <<delivered, rendered, stdout>>
             /\ SessionState' = SessionState
       /\ cpc' = "done" => ~streamErr'
       /\ Cardinality(Issued("start-live-tail")) <= 1]_vars

C12_Witness ==
    /\ SessionState = "Failed"
    /\ streamErr
    /\ closedByCaller
    /\ \E i \in 1..Len(delivered) : delivered[i].type = "start"

\* the consumer's step on the frame it holds, of the given type
ConsumerHandles(type) == cpc = "switch" /\ event.type = type /\ cpc' # cpc

TailOps ==
    {"describe-log-groups", "check-log-group", "describe-log-groups-prefix",
     "first-log-group", "start-live-tail", "close-stream", "stream"}

\* runDeploy has called TailLogs
InTailLogs ==
    \/ pc \in {"listLogGroups", "checkLogGroup", "getArn", "startLiveTail", "sleep", "return"}
    \/ Exited /\ \E i \in 1..Len(calls) : calls[i].op \in TailOps

\* C17: TailLogs runs exactly when --tail was given and Deploy has returned,
\* that is after a successful update-alias; tail is false unless the flag was
\* given; no operation of TailLogs is issued, and no subscription is open,
\* without the flag or after a failed stage.
C17_TailIffFlagAndDeployed ==
    /\ pc # "main" => tail = (osArgs.valid /\ osArgs.tail)
    /\ InTailLogs <=> (tail /\ Succeeded("update-alias") # {})
    /\ \A j \in 1..Len(calls) :
          calls[j].op \in TailOps =>
             /\ tail
             /\ \E i \in Succeeded("update-alias") : i < j
             /\ \A i \in 1..(j - 1) : calls[i].ok
    /\ chan # "none" => (tail /\ Succeeded("start-live-tail") # {})
    /\ (~tail /\ Succeeded("update-alias") # {}) => (Exited /\ exitCode = 0)

C17_Witness ==
    /\ tail
    /\ chan = "open"
    /\ pc = "sleep"
    /\ Succeeded("update-alias") # {}

\* the environment suffix a run should use: the -e/--env flag when given,
\* else what deploy.conf sets, else "stag"
RequestedEnv ==
    IF env # Empty THEN env
    ELSE IF LoadConfig(configFile).config.Env # Empty THEN LoadConfig(configFile).config.Env
    ELSE Stag

\* C18: the function a run resolves and deploys to is <app_name>-<env> with
\* env the value given to -e/--env, and "stag" when neither the flag nor
\* deploy.conf gives one.
C18_EnvFlagIsSuffix ==
    /\ Config # ZeroConfig =>
          Config.LambdaName = Config.AppName \o Dash \o RequestedEnv
    /\ \A i \in Issued("check-function") \cup Issued("update-function-code") :
          \E a \in {Cwd, FileApp} :
             (IF i \in Issued("check-function") THEN calls[i].args.name ELSE calls[i].args.fn)
                 = a \o Dash \o RequestedEnv

\* what holds of the flag: it is parsed into env and read nowhere
C18_EnvFlagUnused ==
    Config # ZeroConfig =>
        [Config EXCEPT !.SourceCodeFilename = Empty] = LoadConfigOrDefaults(configFile, Cwd)

\* the file can be loaded and gives the key a non-empty value
FileSets(key) ==
    /\ configFile.state = "ok"
    /\ \E p \in configFile.pairs : p[1] = key /\ p[2] # Empty

\* the value the file gives a key it holds
ValueInFile(key) == (CHOOSE p \in configFile.pairs : p[1] = key)[2]

\* runDeploy has loaded the configuration
ConfigLoaded == pc = "listFunctions"

\* C19: in the configuration runDeploy works with, every field the file sets
\* has the file's value and every other field its default: env "stag",
\* app_name the working directory's base name, builds_bucket "e4f-builds",
\* log_group_name "/aws/lambda/<app_name>-<env>"; a file that cannot be loaded
\* gives all defaults; the function name is <app_name>-<env> whatever the
\* file holds.
C19_DefaultsAndDerivedName ==
    ConfigLoaded =>
        /\ Config.Env = IF FileSets("ENV") THEN ValueInFile("ENV") ELSE Stag
        /\ Config.AppName = IF FileSets("APP_NAME") THEN ValueInFile("APP_NAME") ELSE Cwd
        /\ Config.BuildsBucket =
              IF FileSets("BUILDS_BUCKET") THEN ValueInFile("BUILDS_BUCKET") ELSE E4fBuilds
        /\ Config.LogGroupName =
              IF FileSets("LOG_GROUP_NAME") THEN ValueInFile("LOG_GROUP_NAME")
              ELSE AwsLambdaPrefix \o Config.AppName \o Dash \o Config.Env
        /\ Config.LambdaName = Config.AppName \o Dash \o Config.Env

C19_Witness ==
    /\ ConfigLoaded
    /\ FileSets("LAMBDANAME")
    /\ FileSets("APP_NAME")
    /\ ~FileSets("ENV")
    /\ ~FileSets("LOG_GROUP_NAME")
    /\ Config.LambdaName = FileApp \o Dash \o Stag

\* what LoadConfig returns for the deploy.conf of the run
Loaded == LoadConfig(configFile)

\* the four fields follow their keys, and LoadConfig returns no error
FieldsFollowKeys ==
    /\ Loaded.ok
    /\ \A kf \in {<<"ENV", "Env">>, <<"APP_NAME", "AppName">>,
                   <<"BUILDS_BUCKET", "BuildsBucket">>,
                   <<"LOG_GROUP_NAME", "LogGroupName">>} :
          Loaded.config[kf[2]] =
              IF \E p \in configFile.pairs : p[1] = kf[1]
              THEN ValueInFile(kf[1]) ELSE Empty

ZipFile == Entries(calls, "zip")[Len(Entries(calls, "zip"))].args.file

\* C21: the archive is named <function>-<first 7 characters of HEAD>.zip when
\* git status printed nothing at the query that names it, and
\* <function>-<first 7 characters>-dirty.zip exactly when it printed
\* something; the name is fixed by function name, revision and that status.
C21_ArtifactFilename ==
    Entries(calls, "zip") # Empty =>
        /\ Len(NamingQuery(calls).head) >= ShortCommitLen
        /\ ZipFile = Config.LambdaName \o Dash
                        \o SubSeq(NamingQuery(calls).head, 1, ShortCommitLen)
                        \o (IF NamingQuery(calls).status = {} THEN Empty ELSE DirtySuffix)
                        \o ZipSuffix
        /\ Len(ZipFile) = Len(Config.LambdaName) + 1 + ShortCommitLen + Len(ZipSuffix)
                          + (IF NamingQuery(calls).status = {} THEN 0 ELSE Len(DirtySuffix))
        /\ Config.SourceCodeFilename = ZipFile

C21_Witness ==
    /\ Succeeded("zip") # {}
    /\ NamingQuery(calls).status = {}
    /\ ZipFile = <<"w", "-", "s", "t", "a", "g", "-",
                   "a", "b", "c", "1", "2", "3", "4", ".", "z", "i", "p">>

\* C27: the commit identifier given to the linker equals the one in the
\* archive's name: the archive is named after the string go build received.
C27_SameCommitInBinaryAndName ==
    \A i \in Issued("zip") :
        \E j \in Issued("go-build") :
            /\ j < i
            /\ calls[i].args.file
                  = SourceCodeFilename(Config.LambdaName, calls[j].args.commit)

\* the answers of the prefix lookup, and the subscriptions asked for
Lookups == Entries(calls, "describe-log-groups-prefix")
Subscriptions == Entries(calls, "start-live-tail")
EndsWith(s, suffix) ==
    Len(s) >= Len(suffix) /\ SubSeq(s, Len(s) - Len(suffix) + 1, Len(s)) = suffix

\* C22: the identifier given to start-live-tail comes from a lookup by name
\* prefix. When the lookup matches no group the run ends with code 1 and no
\* subscription is asked for; otherwise the identifier is the matched
\* group's identifier without a trailing ":*", and the identifier itself
\* when it does not end in ":*".
C22_ArnFromPrefixLookup ==
    /\ [](/\ \A i \in 1..Len(Lookups) : Lookups[i].args.prefix = Config.LogGroupName
          /\ Issued("first-log-group") # {} =>
                 /\ Exited /\ exitCode = 1
                 /\ Subscriptions = Empty
                 /\ chan = "none"
          /\ pc = "startLiveTail" =>
                 /\ Len(served) = 1 /\ served[1] # Empty
                 /\ LET arn == served[1][1].arn
                    IN  IF EndsWith(arn, WildcardSuffix)
                        THEN /\ logGroupArn \o WildcardSuffix = arn
                             /\ Len(logGroupArn) = Len(arn) - 2
                        ELSE logGroupArn = arn)
    /\ [][\A c \in NewCalls : c.op = "start-live-tail" =>
             /\ pc = "startLiveTail"
             /\ c.args.group = logGroupArn]_vars

C22_Witness ==
    /\ pc = "startLiveTail"
    /\ EndsWith(served[1][1].arn, WildcardSuffix)
    /\ served[1][1].name = Config.LogGroupName
    /\ logGroupArn = ArnPrefix \o Config.LogGroupName

\* C28: the identifier subscribed to is the identifier of the log group
\* whose name is the configured log-group name.
C28_SubscribesToConfiguredGroup ==
    \A i \in 1..Len(Subscriptions) :
        Subscriptions[i].args.group = ArnPrefix \o Config.LogGroupName

\* the calls that are made once, and the calls of the platform in all
SingleShotOps == MutatingOps \cup {"start-live-tail"}
PagedOps == {"list-functions", "describe-log-groups"}
PlatformOps ==
    SingleShotOps \cup PagedOps
                  \cup {"list-buckets", "get-function-configuration",
                        "wait-function-updated", "describe-log-groups-prefix"}

\* C23: nothing is tried again. Upload, update-function-code,
\* publish-version, update-alias and start-live-tail are each issued at most
\* once in a run, a failed call is the last call of the run, and a call to
\* the platform is repeated only as the next page of a listing or the next
\* poll of the wait.
C23_NoRetry ==
    /\ \A op \in PlatformOps \ PagedOps : Cardinality(Issued(op)) <= 1
    /\ \A op \in PagedOps :
           /\ Cardinality(Succeeded(op)) <= 1
           /\ Cardinality(Issued(op)) > 1 =>
                  \* the second entry is a later page that failed
                  /\ Cardinality(Issued(op)) = 2
                  /\ Len(requested) > 1
                  /\ calls[Len(calls)].op = op /\ ~calls[Len(calls)].ok
    /\ \A i \in 1..Len(calls) : ~calls[i].ok => i = Len(calls)
    /\ Len(requested) > 1 => pc \in {"listFunctions", "checkFunction",
                                      "listLogGroups", "checkLogGroup", "exited"}
    /\ waited > 0 => pc \in {"wait", "exited"}

C23_Witness ==
    /\ Exited
    /\ \A op \in SingleShotOps : Cardinality(Issued(op)) = 1
    /\ \A op \in MutatingOps : Succeeded(op) # {}
    /\ Succeeded("start-live-tail") = {}

\* the operations of a run: none of them deletes, reverts or repoints
RunOps ==
    PlatformOps \cup {"parse-flags", "getwd", "load-aws-config", "check-function",
                      "check-bucket", "git", "go-build", "chmod", "zip", "open-zip",
                      "check-log-group", "first-log-group", "close-stream", "stream"}

\* what the stages that succeeded did to the platform is still there
EffectsStand ==
    /\ \A i \in Succeeded("upload-blob") :
           [bucket |-> calls[i].args.bucket, key |-> calls[i].args.key] \in cloud.blobs
    /\ \A i \in Succeeded("update-function-code") :
           cloud.code = [bucket |-> calls[i].args.bucket, key |-> calls[i].args.key]
    /\ \A i \in Succeeded("publish-version") : cloud.latest = calls[i].args.version
    /\ \A i \in Succeeded("update-alias") : cloud.alias = calls[i].args.version

\* C24: nothing is rolled back. When a stage of Deploy fails, the blob that
\* was uploaded is still stored, the function still points at the new code,
\* the published version still exists as the latest one, the alias is where
\* it was, and no operation other than the stages' own is issued.
C24_NoRollback ==
    /\ [](EffectsStand /\ \A i \in 1..Len(calls) : calls[i].op \in RunOps)
    /\ [][(exitCode' = 1 /\ exitCode # 1) => cloud' = cloud]_vars
    /\ [][Exited => cloud' = cloud]_vars

C24_Witness ==
    /\ Exited /\ exitCode = 1
    /\ Issued("update-alias") # {} /\ Succeeded("update-alias") = {}
    /\ Succeeded("publish-version") # {}
    /\ cloud.latest > cloud.alias
    /\ cloud.blobs # {}
    /\ cloud.code # Empty

\* the listing loops and the marker each of them holds
InListing == pc \in {"listFunctions", "listLogGroups"}
LoopMarker == IF pc = "listFunctions" THEN nextMarker ELSE nextToken

\* C25: each listing loop ends. It asks for one page at a time, never for
\* a page it has asked for before; a page without a continuation marker is
\* the last one it asks for, and after a page with a marker the next request
\* carries that marker.
C25_ListingTerminates ==
    /\ (pc = "listFunctions") ~> (pc # "listFunctions")
    /\ (pc = "listLogGroups") ~> (pc # "listLogGroups")
    /\ [](\A i, j \in 1..Len(requested) : requested[i] = requested[j] => i = j)
    /\ [](InListing => \/ requested = Empty /\ LoopMarker = 0
                       \/ /\ Len(requested) = Len(served)
                          /\ LoopMarker \notin Range(requested))
    /\ [][InListing /\ pc' \in {"checkFunction", "checkLogGroup"} =>
             /\ Len(requested') = Len(served')
             /\ requested' = Append(requested, LoopMarker)]_vars
    /\ [][~InListing /\ ~InListing' => requested' \in {requested, Empty}]_vars

C25_Witness ==
    /\ pc = "checkLogGroup"
    /\ Len(requested) = MaxPages
    /\ Len(served) = MaxPages
    /\ served[1] # Empty

\* the operations that name the function, the bucket and the log group
FunctionOps ==
    {"get-function-configuration", "update-function-code", "wait-function-updated",
     "publish-version", "update-alias"}
BucketOps == {"upload-blob", "update-function-code"}
LogGroupOps == {"describe-log-groups-prefix"}

\* the names that passed their existence check
Checked(op) == {calls[i].args.name : i \in Succeeded(op)}

\* the fields of the configuration that name the target
Target(c) == <<c.LambdaName, c.BuildsBucket, c.LogGroupName>>

\* C26: the target does not change after it is resolved. Every operation
\* that names the function names the function that passed the existence
\* check, likewise for the bucket and the log group, and from the loading
\* of the configuration on no step changes the three names.
C26_TargetImmutable ==
    /\ [](\A i \in 1..Len(calls) :
             /\ calls[i].op \in FunctionOps =>
                    Checked("check-function") = {calls[i].args.fn}
             /\ calls[i].op \in BucketOps =>
                    Checked("check-bucket") = {calls[i].args.bucket}
             /\ calls[i].op \in LogGroupOps =>
                    Checked("check-log-group") = {calls[i].args.prefix})
    /\ [][pc \notin {"main", "runDeploy"} => Target(Config') = Target(Config)]_vars

C26_Witness ==
    /\ Succeeded("update-alias") # {}
    /\ Lookups # Empty
    /\ Config.LambdaName = FileApp \o Dash \o FileEnv
    /\ Config.SourceCodeFilename # Empty

\* the consumer has what sends it to a fatal branch: an error kept by the
\* transport, or a frame of unknown type received or in hand
Doomed ==
    \/ streamErr
    \/ \E i \in 1..Len(delivered) : delivered[i].type = "unknown"

\* C29: the caller's close is not reported as a stream error. The close
\* leaves no error and hands the consumer no frame; after it the consumer
\* receives only the nil frame and reaches a fatal branch only for an error
\* or an unknown frame that was there before the close; a run that closed
\* the stream with neither of them ends with code 0.
C29_CloseIsNotAnError ==
    /\ [][closedByCaller' /\ ~closedByCaller => Doomed' = Doomed]_vars
    /\ [][closedByCaller =>
             /\ streamErr' = streamErr
             /\ delivered' # delivered =>
                    delivered' = Append(delivered, NilEvent)
             /\ (cpc' = "fatal" /\ cpc # "fatal") => Doomed]_vars
    /\ [](closedByCaller /\ ~Doomed => cpc # "fatal" /\ exitCode # 1)
    /\ [](Exited /\ closedByCaller /\ ~Doomed => exitCode = 0)

C29_Witness ==
    /\ Exited /\ exitCode = 0
    /\ closedByCaller
    /\ ~Doomed
    /\ cpc = "done"
    /\ Len(delivered) > 1
    /\ delivered[Len(delivered)] = NilEvent
    /\ rendered # Empty

====
